---- MODULE Spec2Model ----
(***************************************************************************)
(* A model of the MySensors message (libraries/MySensors/core/MyMessage.h): *)
(* the 7-byte header with its two bit-packed bytes, the payload union, the  *)
(* bitfield macros, and the builder / accessor / hex-stream operations the  *)
(* class declares.  The header gives the macros, the constants and the data *)
(* layout; the bodies of the member functions are not part of the header    *)
(* and are modelled from the specification of the message core.             *)
(***************************************************************************)
EXTENDS Integers, Sequences, FiniteSets, TLC

VARIABLES msg, op, budget, bigEndian, buffer

vars == <<msg, op, budget, bigEndian, buffer>>

(***************************************************************************)
(* Bounds of the model.                                                     *)
(***************************************************************************)
\* Number of operations applied to one message after its construction.
MaxOps == 2
\* Longest text / buffer handed to set(const char*) and set(void*, length).
MaxStrLen == 33

(***************************************************************************)
(* Constants of MyMessage.h.                                                *)
(***************************************************************************)
PROTOCOL_VERSION == 2
MAX_MESSAGE_LENGTH == 32
HEADER_SIZE == 7
MAX_PAYLOAD_OffByOne == MAX_MESSAGE_LENGTH - HEADER_SIZE + 1
MAX_PAYLOAD == MAX_MESSAGE_LENGTH - HEADER_SIZE

C_PRESENTATION == 0
C_SET == 1
C_REQ == 2
C_INTERNAL == 3
C_STREAM == 4

P_STRING == 0
P_BYTE == 1
P_INT16 == 2
P_UINT16 == 3
P_LONG32 == 4
P_ULONG32 == 5
P_CUSTOM == 6
P_FLOAT32 == 7

Byte == 0..255

(***************************************************************************)
(* C integer arithmetic.  The macros compute in int after integer          *)
(* promotion; an int is modelled as a 16-bit pattern (the AVR int), which   *)
(* agrees with wider ints on every value the macros produce from uint8_t    *)
(* operands once the result is stored back into a uint8_t.                  *)
(***************************************************************************)
RECURSIVE BitAndN(_, _, _)
BitAndN(a, b, n) ==
    IF n = 0 \/ a = 0 \/ b = 0 THEN 0
    ELSE (IF a % 2 = 1 /\ b % 2 = 1 THEN 1 ELSE 0)
         + 2 * BitAndN(a \div 2, b \div 2, n - 1)

RECURSIVE BitOrN(_, _, _)
BitOrN(a, b, n) ==
    IF n = 0 \/ (a = 0 /\ b = 0) THEN 0
    ELSE (IF a % 2 = 1 \/ b % 2 = 1 THEN 1 ELSE 0)
         + 2 * BitOrN(a \div 2, b \div 2, n - 1)

BitAnd(a, b) == BitAndN(a, b, 16)
BitOr(a, b) == BitOrN(a, b, 16)
BitNot(a) == (2^16 - 1) - a
Shl(a, n) == (a * 2^n) % 2^16
Shr(a, n) == a \div 2^n
\* Storing an int into a uint8_t lvalue.
U8(a) == a % 256

(***************************************************************************)
(* The bitfield macros.                                                     *)
(***************************************************************************)
BIT(n) == Shl(1, n)
BIT_MASK(len) == BIT(len) - 1
BF_MASK_Unshifted(start, len) == BIT_MASK(len)
BF_MASK(start, len) == Shl(BIT_MASK(len), start)
BF_PREP_NoMask(x, start, len) == Shl(x, start)
BF_PREP(x, start, len) == Shl(BitAnd(x, BIT_MASK(len)), start)
BF_GET(y, start, len) == BitAnd(Shr(y, start), BIT_MASK(len))
BF_SET_NoClear(y, x, start, len) == U8(BitOr(y, BF_PREP(x, start, len)))
BF_SET(y, x, start, len) ==
    U8(BitOr(BitAnd(y, BitNot(BF_MASK(start, len))), BF_PREP(x, start, len)))

mSetVersion(m, v) == [m EXCEPT !.version_length = BF_SET(@, v, 0, 2)]
mGetVersion(m) == BF_GET(m.version_length, 0, 2)
mSetSigned(m, v) == [m EXCEPT !.version_length = BF_SET(@, v, 2, 1)]
mGetSigned(m) == BF_GET(m.version_length, 2, 1)
mSetLength(m, v) == [m EXCEPT !.version_length = BF_SET(@, v, 3, 5)]
mGetLength(m) == BF_GET(m.version_length, 3, 5)
mSetCommand_AtRequestAck(m, v) ==
    [m EXCEPT !.command_ack_payload = BF_SET(@, v, 3, 3)]
mSetCommand(m, v) == [m EXCEPT !.command_ack_payload = BF_SET(@, v, 0, 3)]
mGetCommand(m) == BF_GET(m.command_ack_payload, 0, 3)
mSetRequestAck(m, v) == [m EXCEPT !.command_ack_payload = BF_SET(@, v, 3, 1)]
mGetRequestAck(m) == BF_GET(m.command_ack_payload, 3, 1)
mSetAck(m, v) == [m EXCEPT !.command_ack_payload = BF_SET(@, v, 4, 1)]
mGetAck(m) == BF_GET(m.command_ack_payload, 4, 1)
mSetPayloadType(m, v) == [m EXCEPT !.command_ack_payload = BF_SET(@, v, 5, 3)]
mGetPayloadType(m) == BF_GET(m.command_ack_payload, 5, 3)

\* The internal variants act on the members of *this.
miGetCommand(m) == BF_GET(m.command_ack_payload, 0, 3)
miSetLength_WrongStart(m, v) == [m EXCEPT !.version_length = BF_SET(@, v, 2, 5)]
miSetLength(m, v) == [m EXCEPT !.version_length = BF_SET(@, v, 3, 5)]
miGetLength(m) == BF_GET(m.version_length, 3, 5)
miSetRequestAck(m, v) == [m EXCEPT !.command_ack_payload = BF_SET(@, v, 3, 1)]
miGetRequestAck(m) == BF_GET(m.command_ack_payload, 3, 1)
miSetAck(m, v) == [m EXCEPT !.command_ack_payload = BF_SET(@, v, 4, 1)]
miGetAck(m) == BF_GET(m.command_ack_payload, 4, 1)
miSetPayloadType_TwoBits(m, v) ==
    [m EXCEPT !.command_ack_payload = BF_SET(@, v, 5, 2)]
miSetPayloadType(m, v) == [m EXCEPT !.command_ack_payload = BF_SET(@, v, 5, 3)]
miGetPayloadType(m) == BF_GET(m.command_ack_payload, 5, 3)

(***************************************************************************)
(* The message: seven header bytes and the payload union, whose widest     *)
(* member is char data[MAX_PAYLOAD + 1], indexed from 0 as in the C code.   *)
(***************************************************************************)
DataIndex == 0..MAX_PAYLOAD

ZeroData == [i \in DataIndex |-> 0]

ZeroMessage ==
    [last |-> 0, sender |-> 0, destination |-> 0, version_length |-> 0,
     command_ack_payload |-> 0, type |-> 0, sensor |-> 0, data |-> ZeroData]

(***************************************************************************)
(* The payload union.  Every member starts at offset 0 of data; a          *)
(* multi-byte member lies in the byte order of the build, which the header  *)
(* leaves to the platform (bigEndian is fixed when the message is built).   *)
(* Byte sequences below are least-significant byte first.                   *)
(***************************************************************************)
ReadMember(d, n) ==
    [i \in 1..n |-> IF bigEndian THEN d[n - i] ELSE d[i - 1]]

WriteMember(d, bytes) ==
    LET n == Len(bytes)
    IN  [i \in DataIndex |->
            IF i < n
            THEN (IF bigEndian THEN bytes[n - i] ELSE bytes[i + 1])
            ELSE d[i]]

\* Values of the C types.  A uint32_t (and the bit pattern of a float) is
\* kept as <<high 16-bit word, low 16-bit word>>: the model checker's
\* integers are 32-bit signed.  An int32_t is kept as itself.
U16Bytes(v) == <<v % 256, (v \div 256) % 256>>
U16OfBytes(b) == b[1] + 256 * b[2]
S16ToU16(v) == (v + 65536) % 65536
U16ToS16(u) == IF u >= 32768 THEN u - 65536 ELSE u
U32Bytes(w) == U16Bytes(w[2]) \o U16Bytes(w[1])
U32OfBytes(b) == <<b[3] + 256 * b[4], b[1] + 256 * b[2]>>
S32Bytes(v) ==
    LET low31 == IF v >= 0 THEN v ELSE (v + 2147483647) + 1
    IN  <<low31 % 256, (low31 \div 256) % 256, (low31 \div 65536) % 256,
          (low31 \div 16777216) + (IF v < 0 THEN 128 ELSE 0)>>
S32OfBytes(b) ==
    LET low31 == b[1] + 256 * b[2] + 65536 * b[3] + 16777216 * (b[4] % 128)
    IN  IF b[4] >= 128 THEN (low31 - 2147483647) - 1 ELSE low31

bValue(m) == m.data[0]
uiValue(m) == U16OfBytes(ReadMember(m.data, 2))
iValue(m) == U16ToS16(U16OfBytes(ReadMember(m.data, 2)))
ulValue_AsU16(m) == <<0, U16OfBytes(ReadMember(m.data, 2))>>
ulValue(m) == U32OfBytes(ReadMember(m.data, 4))
lValue(m) == S32OfBytes(ReadMember(m.data, 4))
fValue(m) == U32OfBytes(ReadMember(m.data, 4))
fPrecision(m) == m.data[4]

(***************************************************************************)
(* Constructors.                                                            *)
(***************************************************************************)
MyMessage_default == mSetCommand(ZeroMessage, C_SET)

MyMessage_sensor_type(s, t) ==
    [MyMessage_default EXCEPT !.sensor = s, !.type = t]

(***************************************************************************)
(* Builder: fluent setters and the set(...) overloads.                      *)
(***************************************************************************)
setType(m, t) == [m EXCEPT !.type = t]
setSensor(m, s) == [m EXCEPT !.sensor = s]
setDestination(m, d) == [m EXCEPT !.destination = d]

Min(a, b) == IF a < b THEN a ELSE b

\* strlen: the characters before the terminator (texts hold no zero byte).
strlen(s) == Len(s)

Typed(m, ptype, length, bytes) ==
    [miSetPayloadType(miSetLength(m, length), ptype)
        EXCEPT !.data = WriteMember(m.data, bytes)]

set_bool(m, b) == Typed(m, P_BYTE, 1, <<IF b THEN 1 ELSE 0>>)
set_uint8_t(m, v) == Typed(m, P_BYTE, 1, <<v>>)
set_uint16_t(m, v) == Typed(m, P_UINT16, 2, U16Bytes(v))
set_int16_t(m, v) == Typed(m, P_INT16, 2, U16Bytes(S16ToU16(v)))
set_uint32_t(m, w) == Typed(m, P_ULONG32, 4, U32Bytes(w))
set_int32_t(m, v) == Typed(m, P_LONG32, 4, S32Bytes(v))

set_float(m, bits, decimals) ==
    LET t == Typed(m, P_FLOAT32, 4, U32Bytes(bits))
    IN  [t EXCEPT !.data[4] = decimals]

\* memcpy of the first payloadLength bytes of the caller's buffer.
set_custom(m, buf, length) ==
    LET payloadLength == Min(length, MAX_PAYLOAD)
        t == miSetPayloadType(miSetLength(m, payloadLength), P_CUSTOM)
    IN  [t EXCEPT !.data =
            [i \in DataIndex |-> IF i < payloadLength THEN buf[i + 1] ELSE m.data[i]]]

\* The text is copied without its terminator, then terminated locally.
set_string(m, s) ==
    LET length == Min(strlen(s), MAX_PAYLOAD)
        t == miSetPayloadType(miSetLength(m, length), P_STRING)
    IN  [t EXCEPT !.data =
            [i \in DataIndex |->
                IF i < length THEN s[i + 1]
                ELSE IF i = length THEN 0
                ELSE m.data[i]]]

(***************************************************************************)
(* Accessors.  None looks at payloadType.                                   *)
(***************************************************************************)
getBool(m) == bValue(m) # 0
getByte(m) == bValue(m)
getInt(m) == iValue(m)
getUInt(m) == uiValue(m)
getLong(m) == lValue(m)
getULong(m) == ulValue(m)
getFloat(m) == fValue(m)
getCustom(m) == m.data
getCommand(m) == miGetCommand(m)
isAck(m) == miGetAck(m) # 0

\* getString() hands out data itself: the text is what precedes the first
\* zero byte of the region.
RECURSIVE CString(_, _)
CString(d, i) ==
    IF i > MAX_PAYLOAD \/ d[i] = 0 THEN <<>>
    ELSE <<d[i]>> \o CString(d, i + 1)

getString(m) == CString(m.data, 0)

(***************************************************************************)
(* Hex rendering of the message and its inverse.  Characters are their      *)
(* ASCII codes; a text in a caller's buffer ends with a zero byte.          *)
(***************************************************************************)
i2h_NoLetters(i) == 48 + i
i2h(i) == IF i <= 9 THEN 48 + i ELSE 97 + (i - 10)

h2i(c) ==
    IF c >= 48 /\ c <= 57 THEN c - 48
    ELSE IF c >= 97 /\ c <= 102 THEN (c - 97) + 10
    ELSE 0

\* The bytes that are transmitted: the header in its declared order, then
\* the first `length` bytes of the payload.
MessageBytes(m) ==
    <<m.last, m.sender, m.destination, m.version_length,
      m.command_ack_payload, m.type, m.sensor>>
    \o [i \in 1..miGetLength(m) |-> m.data[i - 1]]

HexEncode(bytes) ==
    [k \in 1..(2 * Len(bytes) + 1) |->
        IF k = 2 * Len(bytes) + 1 THEN 0
        ELSE LET b == bytes[(k + 1) \div 2]
             IN  IF k % 2 = 1 THEN i2h(Shr(b, 4)) ELSE i2h(BitAnd(b, 15))]

getStream(m) == HexEncode(MessageBytes(m))

HexDecode(text) ==
    [k \in 1..((Len(text) - 1) \div 2) |->
        16 * h2i(text[2 * k - 1]) + h2i(text[2 * k])]

(***************************************************************************)
(* Arguments the callers pass.                                              *)
(***************************************************************************)
Text(n) == [i \in 1..n |-> 97 + (i % 26)]
Hello == <<104, 101, 108, 108, 111>>
Blob(n) == [i \in 1..n |-> (i * 37) % 256]

ArgLengths == {0, MAX_PAYLOAD, MAX_PAYLOAD + 1, MaxStrLen}
Texts == {Hello} \cup {Text(n) : n \in ArgLengths}
BlobLengths == {3} \cup ArgLengths

U8Args == {0, 1, 200}
U16Args == {0, 1234, 32768, 65535}
S16Args == {0, 1234, -1, -32768}
U32Args == {<<0, 0>>, <<1, 4464>>, <<32768, 1>>, <<65535, 65535>>}
S32Args == {0, 70000, -1, (-2147483647) - 1}
FloatArgs == {<<16456, 62915>>}
DecimalArgs == {0, 2}
IdArgs == {0, 10}
\* Arguments of the header macros: in range, at the edge, and too wide.
FieldArgs == {0, 1, 4, 26, 31, 255}


(***************************************************************************)
(* The builder as a state machine: one message, constructed and then       *)
(* populated by its single owner, one operation per step.                   *)
(***************************************************************************)
Ready == budget > 0
Operation(kind, a, a2) == [kind |-> kind, arg |-> a, arg2 |-> a2]

Init ==
    /\ bigEndian \in BOOLEAN
    /\ \/ /\ msg = MyMessage_default
          /\ op = Operation("MyMessage", 0, 0)
       \/ \E s \in {3, 255}, t \in {5, 0} :
             /\ msg = MyMessage_sensor_type(s, t)
             /\ op = Operation("MyMessage2", s, t)
    /\ budget = MaxOps
    /\ buffer = <<>>

SetType ==
    /\ Ready
    /\ \E t \in IdArgs :
          msg' = setType(msg, t) /\ op' = Operation("setType", t, 0)
    /\ budget' = budget - 1
    /\ UNCHANGED <<bigEndian, buffer>>

SetSensor ==
    /\ Ready
    /\ \E s \in IdArgs :
          msg' = setSensor(msg, s) /\ op' = Operation("setSensor", s, 0)
    /\ budget' = budget - 1
    /\ UNCHANGED <<bigEndian, buffer>>

SetDestination ==
    /\ Ready
    /\ \E d \in IdArgs :
          msg' = setDestination(msg, d) /\ op' = Operation("setDestination", d, 0)
    /\ budget' = budget - 1
    /\ UNCHANGED <<bigEndian, buffer>>

SetBool ==
    /\ Ready
    /\ \E b \in BOOLEAN :
          msg' = set_bool(msg, b) /\ op' = Operation("set_bool", b, 0)
    /\ budget' = budget - 1
    /\ UNCHANGED <<bigEndian, buffer>>

SetUInt8(V) ==
    /\ Ready
    /\ \E v \in V :
          msg' = set_uint8_t(msg, v) /\ op' = Operation("set_uint8_t", v, 0)
    /\ budget' = budget - 1
    /\ UNCHANGED <<bigEndian, buffer>>

SetUInt16(V) ==
    /\ Ready
    /\ \E v \in V :
          msg' = set_uint16_t(msg, v) /\ op' = Operation("set_uint16_t", v, 0)
    /\ budget' = budget - 1
    /\ UNCHANGED <<bigEndian, buffer>>

SetInt16(V) ==
    /\ Ready
    /\ \E v \in V :
          msg' = set_int16_t(msg, v) /\ op' = Operation("set_int16_t", v, 0)
    /\ budget' = budget - 1
    /\ UNCHANGED <<bigEndian, buffer>>

SetUInt32(V) ==
    /\ Ready
    /\ \E v \in V :
          msg' = set_uint32_t(msg, v) /\ op' = Operation("set_uint32_t", v, 0)
    /\ budget' = budget - 1
    /\ UNCHANGED <<bigEndian, buffer>>

SetInt32(V) ==
    /\ Ready
    /\ \E v \in V :
          msg' = set_int32_t(msg, v) /\ op' = Operation("set_int32_t", v, 0)
    /\ budget' = budget - 1
    /\ UNCHANGED <<bigEndian, buffer>>

SetFloat ==
    /\ Ready
    /\ \E v \in FloatArgs, d \in DecimalArgs :
          msg' = set_float(msg, v, d) /\ op' = Operation("set_float", v, d)
    /\ budget' = budget - 1
    /\ UNCHANGED <<bigEndian, buffer>>

SetCustom ==
    /\ Ready
    /\ \E n \in BlobLengths :
          /\ msg' = set_custom(msg, Blob(n), n)
          /\ op' = Operation("set_custom", Blob(n), n)
    /\ budget' = budget - 1
    /\ UNCHANGED <<bigEndian, buffer>>

SetString ==
    /\ Ready
    /\ \E s \in Texts :
          msg' = set_string(msg, s) /\ op' = Operation("set_string", s, 0)
    /\ budget' = budget - 1
    /\ UNCHANGED <<bigEndian, buffer>>

\* The header macros, applied to the message by its owner; V is the set the
\* argument is drawn from.
MSetVersion(V) ==
    /\ Ready
    /\ \E v \in V :
          msg' = mSetVersion(msg, v) /\ op' = Operation("mSetVersion", v, 0)
    /\ budget' = budget - 1
    /\ UNCHANGED <<bigEndian, buffer>>

MSetSigned(V) ==
    /\ Ready
    /\ \E v \in V :
          msg' = mSetSigned(msg, v) /\ op' = Operation("mSetSigned", v, 0)
    /\ budget' = budget - 1
    /\ UNCHANGED <<bigEndian, buffer>>

MSetLength(V) ==
    /\ Ready
    /\ \E v \in V :
          msg' = mSetLength(msg, v) /\ op' = Operation("mSetLength", v, 0)
    /\ budget' = budget - 1
    /\ UNCHANGED <<bigEndian, buffer>>

MSetCommand(V) ==
    /\ Ready
    /\ \E v \in V :
          msg' = mSetCommand(msg, v) /\ op' = Operation("mSetCommand", v, 0)
    /\ budget' = budget - 1
    /\ UNCHANGED <<bigEndian, buffer>>

MSetRequestAck(V) ==
    /\ Ready
    /\ \E v \in V :
          msg' = mSetRequestAck(msg, v) /\ op' = Operation("mSetRequestAck", v, 0)
    /\ budget' = budget - 1
    /\ UNCHANGED <<bigEndian, buffer>>

MSetAck(V) ==
    /\ Ready
    /\ \E v \in V :
          msg' = mSetAck(msg, v) /\ op' = Operation("mSetAck", v, 0)
    /\ budget' = budget - 1
    /\ UNCHANGED <<bigEndian, buffer>>

MSetPayloadType(V) ==
    /\ Ready
    /\ \E v \in V :
          msg' = mSetPayloadType(msg, v) /\ op' = Operation("mSetPayloadType", v, 0)
    /\ budget' = budget - 1
    /\ UNCHANGED <<bigEndian, buffer>>

Next ==
    \/ SetType \/ SetSensor \/ SetDestination
    \/ SetBool \/ SetUInt8(U8Args) \/ SetUInt16(U16Args) \/ SetInt16(S16Args)
    \/ SetUInt32(U32Args) \/ SetInt32(S32Args)
    \/ SetFloat \/ SetCustom \/ SetString
    \/ MSetVersion(FieldArgs) \/ MSetSigned(FieldArgs) \/ MSetLength(FieldArgs)
    \/ MSetCommand(FieldArgs) \/ MSetRequestAck(FieldArgs) \/ MSetAck(FieldArgs)
    \/ MSetPayloadType(FieldArgs)

Spec == Init /\ [][Next]_vars

(***************************************************************************)
(* The bitfield codec on its own: every value of the container byte under  *)
(* test, every value of the inserted byte, one macro applied.               *)
(***************************************************************************)
OtherBytes == {165}

InitBF ==
    /\ bigEndian = FALSE
    /\ \E c \in Byte, o \in OtherBytes :
          \/ msg = [ZeroMessage EXCEPT !.last = 1, !.sender = 2,
                       !.destination = 3, !.type = 5, !.sensor = 6,
                       !.version_length = c, !.command_ack_payload = o]
          \/ msg = [ZeroMessage EXCEPT !.last = 1, !.sender = 2,
                       !.destination = 3, !.type = 5, !.sensor = 6,
                       !.version_length = o, !.command_ack_payload = c]
    /\ op = Operation("init", 0, 0)
    /\ budget = 1
    /\ buffer = <<>>

NextBF ==
    \/ MSetVersion(Byte) \/ MSetSigned(Byte) \/ MSetLength(Byte)
    \/ MSetCommand(Byte) \/ MSetRequestAck(Byte) \/ MSetAck(Byte)
    \/ MSetPayloadType(Byte)

SpecBF == InitBF /\ [][NextBF]_vars

(***************************************************************************)
(* The integral payload overloads on their own: every 8-bit and 16-bit     *)
(* value and a grid of 32-bit values, written over what an earlier set of  *)
(* another type left in the region, in either byte order.                   *)
(***************************************************************************)
Words == {0, 1, 255, 256, 32767, 32768, 65535}
U32Wide == Words \X Words
S32Wide ==
    {0, 1, 255, 256, 65535, 65536, 70000, 16777215, 16777216, 2147483647,
     -1, -255, -256, -65536, -16777216, -2147483647, (-2147483647) - 1}

Residues ==
    {MyMessage_default,
     set_string(MyMessage_default, Text(MAX_PAYLOAD)),
     set_custom(MyMessage_sensor_type(3, 5), Blob(MAX_PAYLOAD), MAX_PAYLOAD)}

InitPayload ==
    /\ bigEndian \in BOOLEAN
    /\ msg \in Residues
    /\ op = Operation("init", 0, 0)
    /\ budget = 1
    /\ buffer = <<>>

NextPayload ==
    \/ SetBool \/ SetUInt8(Byte) \/ SetUInt16(0..65535)
    \/ SetInt16(-32768..32767) \/ SetUInt32(U32Wide) \/ SetInt32(S32Wide)

SpecPayload == InitPayload /\ [][NextPayload]_vars

(***************************************************************************)
(* Hex rendering on its own: each header byte takes every value, the       *)
(* length every value up to the payload capacity.                           *)
(***************************************************************************)
InitStream ==
    /\ bigEndian = FALSE
    /\ \E f \in 0..6, b \in Byte, n \in 0..MAX_PAYLOAD :
          LET h == [i \in 0..6 |-> IF i = f THEN b ELSE (17 * i + 3) % 256]
              d == [i \in DataIndex |-> (b + 37 * i) % 256]
          IN  msg = mSetLength(
                      [last |-> h[0], sender |-> h[1], destination |-> h[2],
                       version_length |-> h[3], command_ack_payload |-> h[4],
                       type |-> h[5], sensor |-> h[6], data |-> d], n)
    /\ op = Operation("init", 0, 0)
    /\ budget = 1
    /\ buffer = <<>>

GetStream ==
    /\ Ready
    /\ budget' = budget - 1
    /\ buffer' = getStream(msg)
    /\ op' = Operation("getStream", 0, 0)
    /\ UNCHANGED <<msg, bigEndian>>

NextStream == GetStream

SpecStream == InitStream /\ [][NextStream]_vars

(***************************************************************************)
(* Properties.                                                              *)
(***************************************************************************)
SetKinds ==
    {"set_bool", "set_uint8_t", "set_uint16_t", "set_int16_t", "set_uint32_t",
     "set_int32_t", "set_float", "set_custom", "set_string"}

ConstructorKinds == {"MyMessage", "MyMessage2"}

\* C1: for each of the seven header sub-fields, whatever the container byte
\* held before and whatever byte value v was inserted, the getter applied
\* after the setter returns v mod 2^width (v itself when v < 2^width).
C1_GetAfterSet ==
    /\ op.kind = "mSetVersion" => mGetVersion(msg) = op.arg % (2^2)
    /\ op.kind = "mSetSigned" => mGetSigned(msg) = op.arg % (2^1)
    /\ op.kind = "mSetLength" => mGetLength(msg) = op.arg % (2^5)
    /\ op.kind = "mSetCommand" => mGetCommand(msg) = op.arg % (2^3)
    /\ op.kind = "mSetRequestAck" => mGetRequestAck(msg) = op.arg % (2^1)
    /\ op.kind = "mSetAck" => mGetAck(msg) = op.arg % (2^1)
    /\ op.kind = "mSetPayloadType" => mGetPayloadType(msg) = op.arg % (2^3)

\* A too-wide value (200) was inserted as length into a container whose
\* other bits are set, and reads back as 200 mod 32.
C1_Witness ==
    /\ op.kind = "mSetLength"
    /\ op.arg = 200
    /\ mGetLength(msg) = 8
    /\ mGetVersion(msg) = 3
    /\ mGetSigned(msg) = 1

\* C2 as stated: the length sub-field is at most MAX_PAYLOAD (25) in every
\* reachable state, so 7 + length never exceeds MAX_MESSAGE_LENGTH (32).
C2_Original ==
    /\ mGetLength(msg) <= 25
    /\ 7 + mGetLength(msg) <= 32

C2_Step ==
    LET wide == op'.kind = "mSetLength" /\ op'.arg % 32 > 25
    IN  /\ mGetLength(msg') <= 31
        /\ (mGetLength(msg) <= 25 /\ ~wide) =>
              (mGetLength(msg') <= 25 /\ 7 + mGetLength(msg') <= 32)
        /\ op'.kind \in SetKinds => mGetLength(msg') <= 25
        /\ wide => mGetLength(msg') = op'.arg % 32

\* C2, amended: the length sub-field is at most 25 after construction and
\* stays at most 25 under every operation except mSetLength(msg, v) with
\* v mod 32 > 25, which leaves exactly v mod 32 (26..31); every set(...)
\* overload brings it back to at most 25, and it never exceeds 31.
C2_LengthBound == mGetLength(msg) <= 25 /\ [][C2_Step]_vars

\* A text longer than the payload was set and the length is the capacity.
C2_Witness ==
    /\ op.kind = "set_string"
    /\ strlen(op.arg) > 25
    /\ mGetLength(msg) = 25

C3_Fixed ==
    /\ op.kind \in {"set_bool", "set_uint8_t"} =>
          (mGetPayloadType(msg) = P_BYTE /\ mGetLength(msg) = 1)
    /\ op.kind = "set_int16_t" =>
          (mGetPayloadType(msg) = P_INT16 /\ mGetLength(msg) = 2)
    /\ op.kind = "set_uint16_t" =>
          /\ mGetPayloadType(msg) = P_UINT16
          /\ mGetLength(msg) = 2
          /\ getUInt(msg) = op.arg
    /\ op.kind = "set_int32_t" =>
          (mGetPayloadType(msg) = P_LONG32 /\ mGetLength(msg) = 4)
    /\ op.kind = "set_uint32_t" =>
          (mGetPayloadType(msg) = P_ULONG32 /\ mGetLength(msg) = 4)
    /\ op.kind = "set_float" =>
          (mGetPayloadType(msg) = P_FLOAT32 /\ mGetLength(msg) = 4)

C4_RoundTrip ==
    /\ op.kind = "set_bool" => getBool(msg) = op.arg
    /\ op.kind = "set_uint8_t" => getByte(msg) = op.arg
    /\ op.kind = "set_int16_t" => getInt(msg) = op.arg
    /\ op.kind = "set_uint16_t" => getUInt(msg) = op.arg
    /\ op.kind = "set_int32_t" => getLong(msg) = op.arg
    /\ op.kind = "set_uint32_t" => getULong(msg) = op.arg

\* The most negative int16_t was written, on a big-endian build, over the
\* bytes of an earlier, longer payload and reads back.
C4_Witness ==
    /\ op.kind = "set_int16_t"
    /\ op.arg = -32768
    /\ getInt(msg) = -32768
    /\ bigEndian
    /\ msg.data[0] = 128
    /\ msg.data[2] # 0

C7_Step ==
    op'.kind \in SetKinds =>
        /\ getCommand(msg') = getCommand(msg)
        /\ isAck(msg') = isAck(msg)

\* C7: every set(...) overload, from every message state and with every
\* argument, leaves getCommand() and isAck() as they were.
C7_SetKeepsCommandAndAck == [][C7_Step]_vars

\* A set that rewrote all three payloadType bits of a message whose ack
\* flag and command bits were set.
C7_Witness ==
    /\ op.kind = "set_float"
    /\ mGetPayloadType(msg) = P_FLOAT32
    /\ isAck(msg)
    /\ getCommand(msg) = C_SET

C10_Step ==
    LET k == op'.kind
    IN  /\ msg'.version_length \in Byte
        /\ msg'.command_ack_payload \in Byte
        /\ k # "mSetVersion" => mGetVersion(msg') = mGetVersion(msg)
        /\ k # "mSetSigned" => mGetSigned(msg') = mGetSigned(msg)
        /\ k # "mSetLength" => mGetLength(msg') = mGetLength(msg)
        /\ k # "mSetCommand" => mGetCommand(msg') = mGetCommand(msg)
        /\ k # "mSetRequestAck" => mGetRequestAck(msg') = mGetRequestAck(msg)
        /\ k # "mSetAck" => mGetAck(msg') = mGetAck(msg)
        /\ k # "mSetPayloadType" => mGetPayloadType(msg') = mGetPayloadType(msg)
        /\ msg'.last = msg.last
        /\ msg'.sender = msg.sender
        /\ msg'.destination = msg.destination
        /\ msg'.type = msg.type
        /\ msg'.sensor = msg.sensor
        /\ msg'.data = msg.data

\* C10: setting one sub-field, with any byte value, in any container,
\* leaves every other sub-field of that byte and every other header byte
\* unchanged, and the container stays a byte.
C10_SetKeepsOthers == [][C10_Step]_vars

\* The signed bit was cleared by a too-wide even value in a container whose
\* other seven bits are all set.
C10_Witness ==
    /\ op.kind = "mSetSigned"
    /\ op.arg = 254
    /\ msg.version_length = 251

====
